---- MODULE Spec2Model ----
(***************************************************************************)
(* Text layout of egui's paint::font: glyph resolution through the glyph   *)
(* cache and the shared texture atlas, single-line and multi-line layout   *)
(* with greedy word wrap, and the Galley that results.                     *)
(*                                                                         *)
(* Numbers.  An f32 length in points is kept as an integer count of        *)
(* 1/Unit point, exactly.  Characters are Unicode code points, a String is *)
(* the sequence of its UTF-8 bytes.  Indices keep the source's 0-based     *)
(* values; At and Slice translate them to TLA+ sequences.                  *)
(***************************************************************************)
EXTENDS Integers, Sequences, FiniteSets, TLC

\* Longest text (in characters) handed to a layout call.
MaxLen == 3

\* Denominator of the fixed-point lengths: 1/20 point, so that half pixels
\* at 1 and 2 pixels per point and 0.4 * line_spacing are whole numbers.
Unit == 4 * 5

\* ------------------------------------------------------------------------
\* Option<T>, slices
\*
\* A value computed once and used in several places is bound as the element
\* of a one-element set, CHOOSE r \in {F(x) : x \in {v}} : TRUE, which is F(v).
\* ------------------------------------------------------------------------
None == <<>>
Some(v) == <<v>>
IsSome(o) == o # <<>>
Unwrap(o) == o[1]

\* s[i] of a 0-based slice
At(s, i) == s[i + 1]
\* s[a..b] of a 0-based slice (b exclusive)
Slice(s, a, b) == SubSeq(s, a + 1, b)
Last(s) == s[Len(s)]

RECURSIVE SumSeq(_)
SumSeq(s) == IF s = <<>> THEN 0 ELSE Head(s) + SumSeq(Tail(s))

Max2(a, b) == IF a >= b THEN a ELSE b
Min2(a, b) == IF a <= b THEN a ELSE b
Abs(a) == IF a >= 0 THEN a ELSE -a

\* ------------------------------------------------------------------------
\* Characters and strings
\* ------------------------------------------------------------------------
REPLACEMENT_CHAR == 63
NON_BREAKING_SPACE == 160
FIRST_ASCII == 32
LAST_ASCII == 126
NEWLINE == 10
DEGREE_SIGN == 176

\* The characters texts are made of: '\n', ' ', 'a' and U+00A0, the last one
\* two bytes long in UTF-8.
Alphabet == {NEWLINE, 32, 97, NON_BREAKING_SPACE}

\* Every character of the model: those of texts, '?', the degree sign and
\* U+00E9, a character with a glyph that Font::new does not preload
AllChars == Alphabet \cup {REPLACEMENT_CHAR, DEGREE_SIGN, 233}

\* char::is_whitespace on the characters of the model
is_whitespace(c) == c \in {9, NEWLINE, 32, NON_BREAKING_SPACE}

\* The UTF-8 bytes of one character below U+0800
Utf8(c) == IF c < 128 THEN <<c>> ELSE <<192 + (c \div 64), 128 + (c % 64)>>

RECURSIVE to_owned(_)
\* The String holding the characters cs
to_owned(cs) == IF cs = <<>> THEN <<>> ELSE Utf8(Head(cs)) \o to_owned(Tail(cs))

RECURSIVE chars(_)
\* str::chars: the characters a byte string decodes to
chars(s) ==
    IF s = <<>> THEN <<>>
    ELSE IF s[1] < 128 THEN <<s[1]>> \o chars(Tail(s))
    ELSE <<(s[1] - 192) * 64 + (s[2] - 128)>> \o chars(Tail(Tail(s)))

RECURSIVE rfind(_, _)
\* A slip: str::rfind, the byte offset of the last occurrence
rfind(s, b) ==
    IF s = <<>> THEN None
    ELSE IF Last(s) = b THEN Some(Len(s) - 1)
    ELSE rfind(SubSeq(s, 1, Len(s) - 1), b)

RECURSIVE find(_, _)
\* str::find of a one-byte character: the byte offset of its first occurrence
find(s, b) ==
    IF s = <<>> THEN None
    ELSE IF s[1] = b THEN Some(0)
    ELSE LET r == find(Tail(s), b) IN IF IsSome(r) THEN Some(Unwrap(r) + 1) ELSE None

ends_with(s, b) == s # <<>> /\ Last(s) = b

\* All character sequences of length at most n over Alphabet
SeqsUpTo(n) == UNION {[1..k -> Alphabet] : k \in 0..n}

\* ------------------------------------------------------------------------
\* State
\* ------------------------------------------------------------------------
Fonts == {1, 2}

VARIABLES
    font,                   \* the typeface: advance widths and kerning (rusttype::Font)
    scale_in_pixels,        \* Font::scale_in_pixels, in 1/Unit pixel
    pixels_per_point,       \* Font::pixels_per_point
    replacement_glyph_info, \* per Font: Option of Font::replacement_glyph_info
    glyph_infos,            \* per Font: the glyph cache, a function char -> GlyphInfo
    atlas,                  \* the shared TextureAtlas: the regions allocated so far
    text,                   \* the String given to the layout call
    max_width_in_points,    \* the wrap width given to layout_multiline
    galley,                 \* the Galley the layout call returned
    call,                   \* which layout entry point has run: "none" before
    glyph_infos_lock,       \* per Font: the RwLock of glyph_infos, [readers, writer]
    atlas_lock,             \* the Mutex of the atlas: Option of the thread holding it
    threads,                \* per thread: where it is in Font::new or glyph_info, its locals
    returns,                \* what glyph_info has returned: <<font, c, GlyphInfo>>
    allocs,                 \* per Font and character: the allocate_glyph calls made
    char_idx,               \* Option of the index given to Galley::char_start_pos
    cursor_pos,             \* Option of the Vec2 (pos) char_start_pos returned or char_at was given
    galley_cursor           \* Option of the GalleyCursor Galley::char_at returned

fontVars == <<font, scale_in_pixels, pixels_per_point>>
layoutVars == <<text, max_width_in_points, galley, call>>
threadVars == <<glyph_infos_lock, atlas_lock, threads, returns, allocs>>
cursorVars == <<char_idx, cursor_pos, galley_cursor>>

vars == <<font, scale_in_pixels, pixels_per_point, replacement_glyph_info,
          glyph_infos, atlas, text, max_width_in_points, galley, call,
          glyph_infos_lock, atlas_lock, threads, returns, allocs,
          char_idx, cursor_pos, galley_cursor>>

\* The threads: 1 and 2 share the Font 1, thread 3 builds and uses the Font 2
Threads == {1, 2, 3}
FontOf(t) == IF t <= 2 THEN 1 ELSE 2

\* RwLock::default()
Unlocked == [readers |-> {}, writer |-> None]

\* A thread outside Font::new and glyph_info: no call made, no locals
IdleThread == [pc |-> "idle", c |-> 0, glyph |-> None, pos |-> 0, info |-> None,
               preload |-> 0, calls |-> 0, cached_at_call |-> FALSE]

\* ------------------------------------------------------------------------
\* The typeface (rusttype) and the atlas
\* ------------------------------------------------------------------------
\* font.glyph(c).id(): 0 when the typeface has no glyph for c
GlyphId(c) ==
    CASE c = REPLACEMENT_CHAR -> 1
      [] c = 32 -> 2
      [] c = 97 -> 3
      [] c = NON_BREAKING_SPACE -> 4
      [] c = DEGREE_SIGN -> 5
      [] c = 233 -> 6
      [] OTHER -> 0

\* glyph.pixel_bounding_box() is Some: the glyph has pixels to draw
HasBoundingBox(id) == id \in {1, 3, 5, 6}

\* h_metrics().advance_width of a glyph at the font's scale, in 1/Unit pixel
h_advance(id) == IF HasBoundingBox(id) THEN font.adv_glyph ELSE font.adv_space

\* font.pair_kerning(scale, last, next), in 1/Unit pixel: the typeface kerns
\* the pair 'a','a'
pair_kerning(last, next) == IF last = 3 /\ next = 3 THEN font.kern ELSE 0

\* TextureAtlas::allocate: reserves a fresh region (never reused) and returns
\* its position.  A region holds the glyph id drawn into it, 0 while blank.
atlas_allocate(atl) == [pos |-> Len(atl), atlas |-> Append(atl, 0)]

\* glyph.draw into the region at pos
atlas_draw(atl, pos, id) == [atl EXCEPT ![pos + 1] = id]

\* The GlyphInfo allocate_glyph builds: uv_rect holds the position of the
\* glyph's region in the atlas (UvRect::min), None for a glyph without pixels
GlyphInfo(id, uv_rect) ==
    [id |-> id, advance_width |-> h_advance(id) \div pixels_per_point, uv_rect |-> uv_rect]

\* allocate_glyph(atlas, c, font, scale, pixels_per_point): None without a
\* glyph; else the GlyphInfo, with a freshly allocated and drawn region when the
\* glyph has a bounding box.
allocate_glyph(atl, c) ==
    LET id == GlyphId(c) IN
    IF id = 0 THEN [glyph |-> None, atlas |-> atl]
    ELSE LET a == atlas_allocate(atl)
             bb == HasBoundingBox(id)
         IN [glyph |-> Some(GlyphInfo(id, IF bb THEN Some(a.pos) ELSE None)),
             atlas |-> IF bb THEN atlas_draw(a.atlas, a.pos, id) ELSE atl]

\* ------------------------------------------------------------------------
\* Font: metrics
\* ------------------------------------------------------------------------
\* f32::round of n/d for d > 0: half-way cases away from zero
round(n, d) == IF n >= 0 THEN (2 * n + d) \div (2 * d) ELSE -((2 * (-n) + d) \div (2 * d))

round_to_pixel(point) == (round(point * pixels_per_point, Unit) * Unit) \div pixels_per_point

line_spacing == scale_in_pixels \div pixels_per_point
height == scale_in_pixels \div pixels_per_point

\* ------------------------------------------------------------------------
\* Font::glyph_info, run by one thread alone.  fs is the part of the Font a
\* call changes: [glyph_infos, atlas]; repl is replacement_glyph_info.
\* ------------------------------------------------------------------------
\* A slip: unwrap_or_default(), an empty GlyphInfo for a missing glyph
unwrap_or_default(o, default) ==
    IF IsSome(o) THEN Unwrap(o) ELSE [id |-> 0, advance_width |-> 0, uv_rect |-> None]

\* glyph_info.unwrap_or(self.replacement_glyph_info)
unwrap_or(o, default) == IF IsSome(o) THEN Unwrap(o) ELSE default

\* self.glyph_infos.write().insert(c, glyph_info)
insert(cache, c, gi) == (c :> gi) @@ cache

glyph_info(repl, fs, c) ==
    IF c \in DOMAIN fs.glyph_infos
    THEN [info |-> fs.glyph_infos[c], fs |-> fs]
    ELSE LET a == allocate_glyph(fs.atlas, c)
             gi == unwrap_or(a.glyph, repl)
         IN [info |-> gi,
             fs |-> [glyph_infos |-> insert(fs.glyph_infos, c, gi), atlas |-> a.atlas]]

\* The characters Font::new preloads: the printable ASCII characters (those of
\* them the model knows, in order), then the degree sign.
PreloadChars ==
    SelectSeq(<<NEWLINE, 32, REPLACEMENT_CHAR, 97, NON_BREAKING_SPACE>>,
              LAMBDA c : FIRST_ASCII <= c /\ c <= LAST_ASCII) \o <<DEGREE_SIGN>>

RECURSIVE Preload(_, _, _)
Preload(repl, fs, cs) ==
    IF cs = <<>> THEN fs
    ELSE CHOOSE r \in {Preload(repl, next, Tail(cs)) :
                          next \in {glyph_info(repl, fs, Head(cs)).fs}} : TRUE

\* Font::new on the atlas atl, run by one thread alone
FontNew(atl) ==
    LET a == allocate_glyph(atl, REPLACEMENT_CHAR)
        repl == Unwrap(a.glyph)
        fs0 == [glyph_infos |-> insert(<<>>, REPLACEMENT_CHAR, repl), atlas |-> a.atlas]
    IN [replacement_glyph_info |-> repl, fs |-> Preload(repl, fs0, PreloadChars)]

\* ------------------------------------------------------------------------
\* Line and Galley
\* ------------------------------------------------------------------------
Line(x_offsets, y_min, y_max, ends_with_newline) ==
    [x_offsets |-> x_offsets, y_min |-> y_min, y_max |-> y_max,
     ends_with_newline |-> ends_with_newline]

char_count_excluding_newline(line) == Len(line.x_offsets) - 1

char_count_including_newline(line) ==
    char_count_excluding_newline(line) + (IF line.ends_with_newline THEN 1 ELSE 0)

min_x(line) == line.x_offsets[1]
max_x(line) == Last(line.x_offsets)

\* The sum Galley::sanity_check compares with text.chars().count()
TotalCharCount(lines) ==
    SumSeq([k \in 1..Len(lines) |-> char_count_including_newline(lines[k])])

\* Galley::sanity_check, the assertions of a release build: TRUE when none fails
sanity_check(g) ==
    /\ \A k \in 1..Len(g.lines) : g.lines[k].x_offsets # <<>>
    /\ TotalCharCount(g.lines) = Len(chars(g.text))

\* Galley::default()
DefaultGalley == [text |-> <<>>, lines |-> <<>>, size |-> <<0, 0>>]

\* ------------------------------------------------------------------------
\* Galley::char_start_pos, Line::char_at, Galley::char_at
\*
\* A Vec2 is <<x, y>>.  A centre 0.5 * (a + b) is compared doubled, so that
\* half units stay whole numbers.
\* ------------------------------------------------------------------------
\* A slip: the upper bound included, an index owned by the line before its own
InLineInclusive(char_count, idx, line_char_count) ==
    char_count <= idx /\ idx <= char_count + line_char_count

\* char_count <= char_idx && char_idx < char_count + line_char_count
InLine(char_count, idx, line_char_count) ==
    char_count <= idx /\ idx < char_count + line_char_count

RECURSIVE CharStartPosLoop(_, _, _, _)
\* The loop over the lines from line k (1-based) on, char_count characters
\* before it, and what follows the loop.  ok is FALSE when
\* line.x_offsets[line_char_offset] is out of bounds and the call panics.
CharStartPosLoop(lines, k, char_count, idx) ==
    IF k > Len(lines)
    THEN IF lines # <<>>
         THEN [pos |-> <<max_x(Last(lines)), Last(lines).y_min>>, ok |-> TRUE]
         ELSE [pos |-> <<0, 0>>, ok |-> TRUE]
    ELSE LET line == lines[k]
             line_char_count == char_count_including_newline(line)
             line_char_offset == idx - char_count
         IN IF InLine(char_count, idx, line_char_count)
            THEN IF line_char_offset < Len(line.x_offsets)
                 THEN [pos |-> <<At(line.x_offsets, line_char_offset), line.y_min>>,
                       ok |-> TRUE]
                 ELSE [pos |-> <<0, 0>>, ok |-> FALSE]
            ELSE CharStartPosLoop(lines, k + 1, char_count + line_char_count, idx)

char_start_pos(g, idx) == CharStartPosLoop(g.lines, 1, 0, idx)

RECURSIVE LineCharAtLoop(_, _, _)
\* The loop over x_offsets.windows(2) from window i on
LineCharAtLoop(line, i, desired_x) ==
    IF i + 1 >= Len(line.x_offsets) THEN char_count_excluding_newline(line)
    ELSE IF 2 * desired_x < At(line.x_offsets, i) + At(line.x_offsets, i + 1) THEN i
    ELSE LineCharAtLoop(line, i + 1, desired_x)

RECURSIVE LineCharAtStartLoop(_, _, _)
\* A slip: the start of the next character taken for the centre of this one
LineCharAtStartLoop(line, i, desired_x) ==
    IF i + 1 >= Len(line.x_offsets) THEN char_count_excluding_newline(line)
    ELSE IF desired_x < At(line.x_offsets, i) THEN i
    ELSE LineCharAtStartLoop(line, i + 1, desired_x)

Line_char_at_start(line, desired_x) == LineCharAtStartLoop(line, 0, desired_x)

\* Line::char_at
Line_char_at(line, desired_x) == LineCharAtLoop(line, 0, desired_x)

\* GalleyCursor::default()
DefaultCursor == [char_idx |-> 0, line |-> 0, column |-> 0]

\* A slip: <= for <, the last of the closest lines wins
CharAtStepLastWins(st, line_nr, line, p) ==
    LET y_dist == Min2(Abs(line.y_min - p[2]), Abs(line.y_max - p[2]))
        column == Line_char_at(line, p[1])
        closer == ~IsSome(st.best_y_dist) \/ y_dist <= Unwrap(st.best_y_dist)
    IN [best_y_dist |-> IF closer THEN Some(y_dist) ELSE st.best_y_dist,
        cursor |-> IF closer
                   THEN [char_idx |-> st.char_count + column, line |-> line_nr,
                         column |-> column]
                   ELSE st.cursor,
        char_count |-> st.char_count + char_count_including_newline(line)]

\* One turn of the loop of Galley::char_at, for the line of number line_nr;
\* best_y_dist is None for f32::INFINITY
CharAtStep(st, line_nr, line, p) ==
    LET y_dist == Min2(Abs(line.y_min - p[2]), Abs(line.y_max - p[2]))
        column == Line_char_at(line, p[1])
        closer == ~IsSome(st.best_y_dist) \/ y_dist < Unwrap(st.best_y_dist)
    IN [best_y_dist |-> IF closer THEN Some(y_dist) ELSE st.best_y_dist,
        cursor |-> IF closer
                   THEN [char_idx |-> st.char_count + column, line |-> line_nr,
                         column |-> column]
                   ELSE st.cursor,
        char_count |-> st.char_count + char_count_including_newline(line)]

RECURSIVE CharAtLoop(_, _, _)
\* The locals after the first n lines
CharAtLoop(lines, n, p) ==
    IF n = 0 THEN [best_y_dist |-> None, cursor |-> DefaultCursor, char_count |-> 0]
    ELSE CHOOSE r \in {CharAtStep(st, n - 1, lines[n], p) :
                          st \in {CharAtLoop(lines, n - 1, p)}} : TRUE

\* Galley::char_at
char_at(g, p) == CharAtLoop(g.lines, Len(g.lines), p).cursor

\* ------------------------------------------------------------------------
\* Font::layout_single_line_fragment
\* ------------------------------------------------------------------------
\* A unit slip: the kerning, in pixels, added to a cursor in points as it is
kerning_in_pixels(last, next) == pair_kerning(last, next)

\* self.font.pair_kerning(scale_in_pixels, last_glyph_id, glyph.id) / self.pixels_per_point
kerning_in_points(last, next) == pair_kerning(last, next) \div pixels_per_point

\* One turn of the loop over text.chars(): st holds x_offsets,
\* cursor_x_in_points, last_glyph_id and the Font state fs.
FragmentStep(repl, st, c) ==
    LET g == glyph_info(repl, st.fs, c)
        glyph == g.info
        kerned == IF IsSome(st.last_glyph_id)
                  THEN st.cursor_x_in_points
                       + kerning_in_points(Unwrap(st.last_glyph_id), glyph.id)
                  ELSE st.cursor_x_in_points
        cursor == round_to_pixel(kerned + glyph.advance_width)
    IN [x_offsets |-> Append(st.x_offsets, cursor),
        cursor_x_in_points |-> cursor,
        last_glyph_id |-> Some(glyph.id),
        fs |-> g.fs]

RECURSIVE FragmentLoop(_, _, _)
FragmentLoop(repl, st, cs) ==
    IF cs = <<>> THEN st
    ELSE CHOOSE r \in {FragmentLoop(repl, next, Tail(cs)) :
                          next \in {FragmentStep(repl, st, Head(cs))}} : TRUE

\* Returns the x_offsets and the Font state after the glyph lookups
layout_single_line_fragment(repl, fs, s) ==
    CHOOSE r \in {[x_offsets |-> st.x_offsets, fs |-> st.fs] :
                     st \in {FragmentLoop(repl,
                                          [x_offsets |-> <<0>>, cursor_x_in_points |-> 0,
                                           last_glyph_id |-> None, fs |-> fs],
                                          chars(s))}} : TRUE

\* ------------------------------------------------------------------------
\* Font::layout_single_line
\* ------------------------------------------------------------------------
\* ok is FALSE when an assertion fails and the call panics
layout_single_line(repl, fs, s) ==
    CHOOSE r \in {LET line == Line(frag.x_offsets, 0, height, FALSE)
                      g == [text |-> s, lines |-> <<line>>, size |-> <<max_x(line), height>>]
                  IN [galley |-> g, fs |-> frag.fs, ok |-> sanity_check(g)] :
                  frag \in {layout_single_line_fragment(repl, fs, s)}} : TRUE

\* ------------------------------------------------------------------------
\* Font::layout_paragraph_max_width
\* ------------------------------------------------------------------------
\* A slip: the non-breaking space not excepted
IsAnySpace(chr) == is_whitespace(chr)

\* chr.is_whitespace() && chr != NON_BREAKING_SPACE
IsBreakingSpace(chr) == is_whitespace(chr) /\ chr # NON_BREAKING_SPACE

\* The other branch of include_trailing_space: the Line stops before the
\* whitespace, which no Line then holds
CutLineWithoutSpace(full_x_offsets, line_start_idx, last_space_idx, line_start_x, cursor_y) ==
    LET part == Slice(full_x_offsets, line_start_idx, last_space_idx + 1)
    IN Line([k \in 1..Len(part) |-> part[k] - line_start_x],
            cursor_y, cursor_y + height, FALSE)

\* The Line cut at the wrap candidate last_space_idx, the whitespace included
\* (include_trailing_space)
CutLine(full_x_offsets, line_start_idx, last_space_idx, line_start_x, cursor_y) ==
    LET part == Slice(full_x_offsets, line_start_idx, last_space_idx + 2)
    IN Line([k \in 1..Len(part) |-> part[k] - line_start_x],
            cursor_y, cursor_y + height, FALSE)

\* A slip: the offsets of the last Line not moved to start at 0
RestLineUnshifted(full_x_offsets, line_start_idx, line_start_x, cursor_y) ==
    LET part == Slice(full_x_offsets, line_start_idx, Len(full_x_offsets))
    IN Line(part, cursor_y, cursor_y + height, FALSE)

\* The Line of what is left after the last cut
RestLine(full_x_offsets, line_start_idx, line_start_x, cursor_y) ==
    LET part == Slice(full_x_offsets, line_start_idx, Len(full_x_offsets))
    IN Line([k \in 1..Len(part) |-> part[k] - line_start_x],
            cursor_y, cursor_y + height, FALSE)

\* A slip, off by one: a single character left makes no Line
HasRestOffByOne(full_x_offsets, line_start_idx) == line_start_idx + 2 < Len(full_x_offsets)

\* line_start_idx + 1 < full_x_offsets.len(): characters are left for a last Line
HasRest(full_x_offsets, line_start_idx) == line_start_idx + 1 < Len(full_x_offsets)

\* The locals before the loop
WrapInit(full_x_offsets) ==
    [line_start_x |-> At(full_x_offsets, 0), cursor_y |-> 0, line_start_idx |-> 0,
     last_space |-> None, out_lines |-> <<>>]

\* A slip: last_space is not reset after the cut
WrapCutKeepingCandidate(st, full_x_offsets, max_width) ==
    LET last_space_idx == Unwrap(st.last_space)
    IN [out_lines |-> Append(st.out_lines,
                             CutLine(full_x_offsets, st.line_start_idx, last_space_idx,
                                     st.line_start_x, st.cursor_y)),
        line_start_idx |-> last_space_idx + 1,
        line_start_x |-> At(full_x_offsets, last_space_idx + 1),
        last_space |-> st.last_space,
        cursor_y |-> round_to_pixel(st.cursor_y + line_spacing)]

\* The cut: line_width > max_width_in_points with a wrap candidate
WrapCut(st, full_x_offsets, max_width) ==
    LET last_space_idx == Unwrap(st.last_space)
    IN [out_lines |-> Append(st.out_lines,
                             CutLine(full_x_offsets, st.line_start_idx, last_space_idx,
                                     st.line_start_x, st.cursor_y)),
        line_start_idx |-> last_space_idx + 1,
        line_start_x |-> At(full_x_offsets, last_space_idx + 1),
        last_space |-> None,
        cursor_y |-> round_to_pixel(st.cursor_y + line_spacing)]

\* A slip: >= for >, a line that fills the width exactly is cut
WrapStepAtWidth(st, i, chr, full_x_offsets, max_width) ==
    LET x == At(full_x_offsets, i + 1)
        line_width == x - st.line_start_x
        st1 == IF line_width >= max_width /\ IsSome(st.last_space)
               THEN WrapCut(st, full_x_offsets, max_width)
               ELSE st
    IN [st1 EXCEPT !.last_space = IF IsBreakingSpace(chr) THEN Some(i) ELSE @]

\* One turn of the loop, for the character chr at index i
WrapStep(st, i, chr, full_x_offsets, max_width) ==
    LET x == At(full_x_offsets, i + 1)
        line_width == x - st.line_start_x
        st1 == IF line_width > max_width /\ IsSome(st.last_space)
               THEN WrapCut(st, full_x_offsets, max_width)
               ELSE st
    IN [st1 EXCEPT !.last_space = IF IsBreakingSpace(chr) THEN Some(i) ELSE @]

RECURSIVE WrapLoop(_, _, _, _)
\* The locals after the first n turns of the loop
WrapLoop(full_x_offsets, cs, max_width, n) ==
    IF n = 0 THEN WrapInit(full_x_offsets)
    ELSE CHOOSE r \in {WrapStep(st, n - 1, cs[n], full_x_offsets, max_width) :
                          st \in {WrapLoop(full_x_offsets, cs, max_width, n - 1)}} : TRUE

\* The Lines returned for already laid out full_x_offsets
WrapLines(full_x_offsets, cs, max_width) ==
    CHOOSE r \in {IF HasRest(full_x_offsets, st.line_start_idx)
                     THEN Append(st.out_lines,
                                 RestLine(full_x_offsets, st.line_start_idx, st.line_start_x,
                                          st.cursor_y))
                     ELSE st.out_lines :
                     st \in {WrapLoop(full_x_offsets, cs, max_width, Len(cs))}} : TRUE

layout_paragraph_max_width(repl, fs, s, max_width) ==
    IF s = <<>>
    THEN [lines |-> <<Line(<<0>>, 0, height, FALSE)>>, fs |-> fs]
    ELSE CHOOSE r \in {[lines |-> WrapLines(frag.x_offsets, chars(s), max_width),
                          fs |-> frag.fs] :
                          frag \in {layout_single_line_fragment(repl, fs, s)}} : TRUE

\* ------------------------------------------------------------------------
\* Font::layout_multiline
\* ------------------------------------------------------------------------
\* A slip: the text ending with '\n' forgotten
NeedsTrailingLineIfEmpty(s) == s = <<>>

\* text.is_empty() || text.ends_with('\n'): an empty Line is pushed last
NeedsTrailingLine(s) == s = <<>> \/ ends_with(s, NEWLINE)

\* A slip: first_mut() for last_mut()
MarkFirst(paragraph_lines, next_newline) ==
    [paragraph_lines EXCEPT ![1].ends_with_newline = IsSome(next_newline)]

\* paragraph_lines.last_mut().unwrap().ends_with_newline = next_newline.is_some()
MarkLast(paragraph_lines, next_newline) ==
    [paragraph_lines EXCEPT ![Len(paragraph_lines)].ends_with_newline = IsSome(next_newline)]

\* paragraph_start = paragraph_end + 1
NextParagraphStart(paragraph_end) == paragraph_end + 1

\* What a turn of the while loop does with the Lines p of its paragraph: the
\* last one marked, all moved down by cursor_y and appended, cursor_y moved
\* below them.  ok becomes FALSE when assert!(!paragraph_lines.is_empty()) fails.
ParagraphTurn(acc, p, next_newline) ==
    IF p.lines = <<>> THEN [acc EXCEPT !.ok = FALSE, !.fs = p.fs]
    ELSE LET marked == MarkLast(p.lines, next_newline)
             moved == [k \in 1..Len(marked) |->
                          [marked[k] EXCEPT !.y_min = @ + acc.cursor_y,
                                            !.y_max = @ + acc.cursor_y]]
             cursor_y == Last(moved).y_max + (line_spacing * 4) \div 10
         IN [lines |-> acc.lines \o moved, cursor_y |-> cursor_y,
             fs |-> p.fs, ok |-> TRUE]

RECURSIVE ParagraphLoop(_, _, _, _, _)
\* The while loop, from paragraph_start on; acc holds lines, cursor_y, the Font
\* state and ok, FALSE once assert!(!paragraph_lines.is_empty()) has failed.
ParagraphLoop(repl, s, max_width, paragraph_start, acc) ==
    IF ~(paragraph_start < Len(s)) \/ ~acc.ok THEN acc
    ELSE LET next_newline == find(Slice(s, paragraph_start, Len(s)), NEWLINE)
             paragraph_end == IF IsSome(next_newline)
                              THEN paragraph_start + Unwrap(next_newline)
                              ELSE Len(s)
             paragraph_text == Slice(s, paragraph_start, paragraph_end)
         IN CHOOSE r \in {ParagraphLoop(repl, s, max_width, NextParagraphStart(paragraph_end),
                                        next) :
               next \in {ParagraphTurn(acc, p, next_newline) :
                  p \in {layout_paragraph_max_width(repl, acc.fs, paragraph_text,
                                                    max_width)}}} : TRUE

RECURSIVE WidestLine(_)
WidestLine(lines) ==
    IF lines = <<>> THEN 0 ELSE Max2(max_x(Last(lines)), WidestLine(SubSeq(lines, 1, Len(lines) - 1)))

\* After the loop: the empty last Line, the size and the sanity check.  ok is
\* FALSE when an assertion fails (or unwrap finds no line) and the call panics.
MultilineGalley(acc, s) ==
    LET lines == IF NeedsTrailingLine(s)
                 THEN Append(acc.lines,
                             Line(<<0>>, acc.cursor_y, acc.cursor_y + line_spacing, FALSE))
                 ELSE acc.lines
    IN IF ~acc.ok \/ lines = <<>>
       THEN [galley |-> DefaultGalley, fs |-> acc.fs, ok |-> FALSE]
       ELSE LET g == [text |-> s, lines |-> lines,
                      size |-> <<WidestLine(lines), Last(lines).y_max>>]
            IN [galley |-> g, fs |-> acc.fs, ok |-> sanity_check(g)]

layout_multiline(repl, fs, s, max_width) ==
    CHOOSE r \in {MultilineGalley(acc, s) :
                     acc \in {ParagraphLoop(repl, s, max_width, 0,
                                            [lines |-> <<>>, cursor_y |-> 0,
                                             fs |-> fs, ok |-> TRUE])}} : TRUE

\* ------------------------------------------------------------------------
\* The layout calls: one Font, built on a new atlas, lays out one text
\* ------------------------------------------------------------------------
\* Typefaces: advance widths and the kerning of the kerned pair, in 1/Unit pixel
Typefaces == [adv_glyph : {10, 40}, adv_space : {0, 20}, kern : {-60, -40, 0}]

\* <<pixels_per_point, scale_in_points>>, the scale in 1/Unit point:
\* 1 point at 1 pixel per point, 1.25 points at 1 and at 2 pixels per point
Scales == {<<1, 20>>, <<1, 25>>, <<2, 25>>}

\* The wrap widths tried, in 1/Unit point
Widths == {0, 20, 40, 1000}

self == 1

InitLayout ==
    /\ font \in Typefaces
    /\ \E sc \in Scales :
          /\ pixels_per_point = sc[1]
          /\ scale_in_pixels = sc[1] * sc[2]
    /\ atlas = FontNew(<<>>).fs.atlas
    /\ glyph_infos = [f \in Fonts |-> IF f = self THEN FontNew(<<>>).fs.glyph_infos ELSE <<>>]
    /\ replacement_glyph_info =
          [f \in Fonts |-> IF f = self THEN Some(FontNew(<<>>).replacement_glyph_info) ELSE None]
    /\ text \in {to_owned(cs) : cs \in SeqsUpTo(MaxLen)}
    /\ max_width_in_points \in Widths
    /\ galley = DefaultGalley
    /\ call = "none"
    /\ glyph_infos_lock = [f \in Fonts |-> Unlocked]
    /\ atlas_lock = None
    /\ threads = [t \in Threads |-> IdleThread]
    /\ returns = {}
    /\ allocs = [f \in Fonts |-> [c \in AllChars |-> 0]]
    /\ char_idx = None
    /\ cursor_pos = None
    /\ galley_cursor = None

FontState == [glyph_infos |-> glyph_infos[self], atlas |-> atlas]

Returned(r, name) ==
    /\ glyph_infos' = [glyph_infos EXCEPT ![self] = r.fs.glyph_infos]
    /\ atlas' = r.fs.atlas
    /\ galley' = r.galley
    /\ call' = IF r.ok THEN name ELSE "panic"
    /\ UNCHANGED <<fontVars, replacement_glyph_info, text, max_width_in_points, threadVars,
                   cursorVars>>

LayoutMultiline ==
    /\ call = "none"
    /\ \E r \in {layout_multiline(Unwrap(replacement_glyph_info[self]), FontState,
                                  text, max_width_in_points)} :
          Returned(r, "layout_multiline")

LayoutSingleLine ==
    /\ call = "none"
    /\ \E r \in {layout_single_line(Unwrap(replacement_glyph_info[self]), FontState, text)} :
          Returned(r, "layout_single_line")

NextLayout == LayoutMultiline \/ LayoutSingleLine

SpecLayout == InitLayout /\ [][NextLayout]_vars

\* ------------------------------------------------------------------------
\* Cursors: a Galley, laid out or Galley::default(), is asked for the
\* position of a character and for the cursor at a position
\* ------------------------------------------------------------------------
\* Typefaces with and without a zero-width space and a backward kerning
CursorTypefaces == [adv_glyph : {40}, adv_space : {0, 20}, kern : {-60, 0}]

CursorWidths == {20, 1000}

\* The character indices asked for: inside the text, at its end and past it
CharIndices == 0..(MaxLen + 2)

\* The positions asked for, in 1/Unit point: left of, on and between the
\* centres of characters; above, on the edges of, inside and below lines
Positions == {-20, 10, 20, 50} \X {-10, 0, 20, 24, 45}

InitCursor ==
    /\ InitLayout
    /\ font \in CursorTypefaces
    /\ max_width_in_points \in CursorWidths

HasGalley == call \in {"layout_multiline", "layout_single_line", "default"}

\* Galley::default()
GalleyDefault ==
    /\ call = "none"
    /\ galley' = DefaultGalley
    /\ call' = "default"
    /\ UNCHANGED <<fontVars, replacement_glyph_info, glyph_infos, atlas, text,
                   max_width_in_points, threadVars, cursorVars>>

\* galley.char_start_pos(i)
CharStartPos(i) ==
    /\ HasGalley
    /\ char_idx = None /\ galley_cursor = None
    /\ char_idx' = Some(i)
    /\ \E r \in {char_start_pos(galley, i)} :
          /\ cursor_pos' = IF r.ok THEN Some(r.pos) ELSE None
          /\ call' = IF r.ok THEN call ELSE "panic"
    /\ UNCHANGED <<fontVars, replacement_glyph_info, glyph_infos, atlas, text,
                   max_width_in_points, galley, threadVars, galley_cursor>>

\* galley.char_at(p): of the position char_start_pos returned if it was
\* called, else of a position p
CharAt(p) ==
    /\ HasGalley
    /\ galley_cursor = None
    /\ IsSome(cursor_pos) => p = Unwrap(cursor_pos)
    /\ cursor_pos' = Some(p)
    /\ galley_cursor' = Some(char_at(galley, p))
    /\ UNCHANGED <<fontVars, replacement_glyph_info, glyph_infos, atlas, layoutVars,
                   threadVars, char_idx>>

NextCursor ==
    \/ LayoutMultiline
    \/ LayoutSingleLine
    \/ GalleyDefault
    \/ \E i \in CharIndices : CharStartPos(i)
    \/ \E p \in Positions \cup {Unwrap(o) : o \in {cursor_pos} \ {None}} : CharAt(p)

SpecCursor == InitCursor /\ [][NextCursor]_vars

\* ------------------------------------------------------------------------
\* Threads in Font::new and glyph_info
\*
\* The Font 1 has been built; the threads 1 and 2 call glyph_info on it.  The
\* thread 3 builds the Font 2 on the same atlas, by Font::new, and then calls
\* glyph_info on it.  A step is what a thread does between two lock
\* operations; allocate_glyph is two steps, the allocation and the drawing.
\* ------------------------------------------------------------------------
\* glyph_info calls the threads make as callers, all together (Font::new's
\* own calls come on top)
MaxCalls == 2

\* The characters callers ask for: without a glyph, preloaded, and not
\* preloaded without and with pixels
CallChars == {NEWLINE, 97, NON_BREAKING_SPACE, 233}

Set(t, fields) == threads' = [threads EXCEPT ![t] = fields @@ threads[t]]

\* A slip: the atlas taken without its lock
AtlasAlwaysFree(t) == TRUE

\* self.atlas.lock() / atlas.lock(): blocks while another thread holds it
AtlasFree(t) == atlas_lock = None

\* self.glyph_infos.read(): blocks while a writer holds the lock
CanRead(f) == glyph_infos_lock[f].writer = None

\* self.glyph_infos.write(): blocks while a reader or a writer holds the lock
CanWrite(f) == glyph_infos_lock[f].writer = None /\ glyph_infos_lock[f].readers = {}

CallsMade == SumSeq([t \in 1..Cardinality(Threads) |-> threads[t].calls])

\* A caller enters glyph_info(c) on its Font
Call(t, c) ==
    /\ threads[t].pc = "idle"
    /\ CallsMade < MaxCalls
    /\ Set(t, [pc |-> "read_lock", c |-> c, calls |-> threads[t].calls + 1,
               glyph |-> None, info |-> None,
               cached_at_call |-> c \in DOMAIN glyph_infos[FontOf(t)]])
    /\ UNCHANGED <<fontVars, layoutVars, cursorVars, replacement_glyph_info, glyph_infos, atlas,
                   glyph_infos_lock, atlas_lock, returns, allocs>>

\* self.glyph_infos.read()
ReadLock(t) ==
    LET f == FontOf(t) IN
    /\ threads[t].pc = "read_lock"
    /\ CanRead(f)
    /\ glyph_infos_lock' = [glyph_infos_lock EXCEPT ![f].readers = @ \cup {t}]
    /\ Set(t, [pc |-> "lookup"])
    /\ UNCHANGED <<fontVars, layoutVars, cursorVars, replacement_glyph_info, glyph_infos, atlas,
                   atlas_lock, returns, allocs>>

\* A slip: the read guard living on after the lookup, over the rest of the call
keep_read_guard(readers, t) == readers

\* The read guard, a temporary of the if let, is dropped at the end of the
\* block around it, on a hit and on a miss
drop_read_guard(readers, t) == readers \ {t}

\* .get(&c): a hit copies the GlyphInfo to return it; the read guard is dropped
Lookup(t) ==
    LET f == FontOf(t)
        c == threads[t].c
    IN
    /\ threads[t].pc = "lookup"
    /\ glyph_infos_lock' = [glyph_infos_lock EXCEPT ![f].readers = drop_read_guard(@, t)]
    /\ IF c \in DOMAIN glyph_infos[f]
       THEN Set(t, [pc |-> "return", info |-> Some(glyph_infos[f][c])])
       ELSE Set(t, [pc |-> "lock_atlas"])
    /\ UNCHANGED <<fontVars, layoutVars, cursorVars, replacement_glyph_info, glyph_infos, atlas,
                   atlas_lock, returns, allocs>>

\* &mut self.atlas.lock(), of glyph_info (in_new FALSE) or of Font::new
LockAtlas(t, in_new) ==
    /\ threads[t].pc = IF in_new THEN "new_lock_atlas" ELSE "lock_atlas"
    /\ AtlasFree(t)
    /\ atlas_lock' = Some(t)
    /\ Set(t, [pc |-> IF in_new THEN "new_allocate" ELSE "allocate"])
    /\ UNCHANGED <<fontVars, layoutVars, cursorVars, replacement_glyph_info, glyph_infos, atlas,
                   glyph_infos_lock, returns, allocs>>

\* allocate_glyph up to atlas.allocate: no glyph, a glyph without pixels, or a
\* region allocated for the glyph
Allocate(t, in_new) ==
    LET f == FontOf(t)
        c == threads[t].c
        id == GlyphId(c)
        a == atlas_allocate(atlas)
        unlock == IF in_new THEN "new_unlock_atlas" ELSE "unlock_atlas"
    IN
    /\ threads[t].pc = IF in_new THEN "new_allocate" ELSE "allocate"
    /\ allocs' = [allocs EXCEPT ![f][c] = @ + 1]
    /\ IF id = 0
       THEN Set(t, [pc |-> unlock, glyph |-> None]) /\ atlas' = atlas
       ELSE IF HasBoundingBox(id)
       THEN Set(t, [pc |-> IF in_new THEN "new_draw" ELSE "draw", pos |-> a.pos])
            /\ atlas' = a.atlas
       ELSE Set(t, [pc |-> unlock, glyph |-> Some(GlyphInfo(id, None))]) /\ atlas' = atlas
    /\ UNCHANGED <<fontVars, layoutVars, cursorVars, replacement_glyph_info, glyph_infos,
                   glyph_infos_lock, atlas_lock, returns>>

\* glyph.draw into the allocated region, and the GlyphInfo returned
Draw(t, in_new) ==
    LET id == GlyphId(threads[t].c)
        pos == threads[t].pos
    IN
    /\ threads[t].pc = IF in_new THEN "new_draw" ELSE "draw"
    /\ atlas' = atlas_draw(atlas, pos, id)
    /\ Set(t, [pc |-> IF in_new THEN "new_unlock_atlas" ELSE "unlock_atlas",
               glyph |-> Some(GlyphInfo(id, Some(pos)))])
    /\ UNCHANGED <<fontVars, layoutVars, cursorVars, replacement_glyph_info, glyph_infos,
                   glyph_infos_lock, atlas_lock, returns, allocs>>

\* The end of the statement that called allocate_glyph drops the atlas guard;
\* glyph_info then takes the replacement for a missing glyph
UnlockAtlas(t) ==
    LET f == FontOf(t) IN
    /\ threads[t].pc = "unlock_atlas"
    /\ atlas_lock' = None
    /\ Set(t, [pc |-> "write_lock",
               info |-> Some(unwrap_or(threads[t].glyph, Unwrap(replacement_glyph_info[f])))])
    /\ UNCHANGED <<fontVars, layoutVars, cursorVars, replacement_glyph_info, glyph_infos, atlas,
                   glyph_infos_lock, returns, allocs>>

\* self.glyph_infos.write() / font.glyph_infos.write()
WriteLock(t, in_new) ==
    LET f == FontOf(t) IN
    /\ threads[t].pc = IF in_new THEN "new_write_lock" ELSE "write_lock"
    /\ CanWrite(f)
    /\ glyph_infos_lock' = [glyph_infos_lock EXCEPT ![f].writer = Some(t)]
    /\ Set(t, [pc |-> IF in_new THEN "new_insert" ELSE "insert"])
    /\ UNCHANGED <<fontVars, layoutVars, cursorVars, replacement_glyph_info, glyph_infos, atlas,
                   atlas_lock, returns, allocs>>

\* .insert(c, glyph_info); the write guard is dropped
Insert(t, in_new) ==
    LET f == FontOf(t) IN
    /\ threads[t].pc = IF in_new THEN "new_insert" ELSE "insert"
    /\ glyph_infos' = [glyph_infos EXCEPT
                          ![f] = insert(@, threads[t].c, Unwrap(threads[t].info))]
    /\ glyph_infos_lock' = [glyph_infos_lock EXCEPT ![f].writer = None]
    /\ Set(t, [pc |-> IF in_new THEN "new_preload" ELSE "return"])
    /\ UNCHANGED <<fontVars, layoutVars, cursorVars, replacement_glyph_info, atlas,
                   atlas_lock, returns, allocs>>

\* glyph_info returns its GlyphInfo, to Font::new's preload loop or to a caller
Return(t) ==
    /\ threads[t].pc = "return"
    /\ returns' = returns \cup {<<FontOf(t), threads[t].c, Unwrap(threads[t].info)>>}
    /\ Set(t, [pc |-> IF threads[t].preload > 0 THEN "new_preload" ELSE "idle",
               c |-> 0, glyph |-> None, pos |-> 0, info |-> None,
               cached_at_call |-> FALSE])
    /\ UNCHANGED <<fontVars, layoutVars, cursorVars, replacement_glyph_info, glyph_infos, atlas,
                   glyph_infos_lock, atlas_lock, allocs>>

\* Font::new: the allocate_glyph statement has ended, the atlas guard is dropped
\* and the Font is built with the replacement glyph and an empty cache
NewUnlockAtlas(t) ==
    LET f == FontOf(t) IN
    /\ threads[t].pc = "new_unlock_atlas"
    /\ atlas_lock' = None
    /\ replacement_glyph_info' = [replacement_glyph_info EXCEPT ![f] = threads[t].glyph]
    /\ Set(t, [pc |-> "new_write_lock", info |-> threads[t].glyph])
    /\ UNCHANGED <<fontVars, layoutVars, cursorVars, glyph_infos, atlas, glyph_infos_lock,
                   returns, allocs>>

\* Font::new: the next font.glyph_info(c) of the preload, or the Font returned
NewPreload(t) ==
    LET k == threads[t].preload + 1 IN
    /\ threads[t].pc = "new_preload"
    /\ IF k <= Len(PreloadChars)
       THEN Set(t, [pc |-> "read_lock", c |-> PreloadChars[k], preload |-> k,
                    glyph |-> None, info |-> None,
                    cached_at_call |-> PreloadChars[k] \in DOMAIN glyph_infos[FontOf(t)]])
       ELSE Set(t, [pc |-> "idle", preload |-> 0])
    /\ UNCHANGED <<fontVars, layoutVars, cursorVars, replacement_glyph_info, glyph_infos, atlas,
                   glyph_infos_lock, atlas_lock, returns, allocs>>

InitGlyph ==
    /\ font = [adv_glyph |-> 40, adv_space |-> 20, kern |-> 0]
    /\ pixels_per_point = 1
    /\ scale_in_pixels = 20
    /\ atlas = FontNew(<<>>).fs.atlas
    /\ glyph_infos = [f \in Fonts |-> IF f = 1 THEN FontNew(<<>>).fs.glyph_infos ELSE <<>>]
    /\ replacement_glyph_info =
          [f \in Fonts |-> IF f = 1 THEN Some(FontNew(<<>>).replacement_glyph_info) ELSE None]
    /\ text = <<>>
    /\ max_width_in_points = 0
    /\ galley = DefaultGalley
    /\ call = "none"
    /\ glyph_infos_lock = [f \in Fonts |-> Unlocked]
    /\ atlas_lock = None
    /\ threads = [t \in Threads |->
                     IF FontOf(t) = 1 THEN IdleThread
                     ELSE [IdleThread EXCEPT !.pc = "new_lock_atlas", !.c = REPLACEMENT_CHAR]]
    /\ returns = {}
    /\ allocs = [f \in Fonts |-> [c \in AllChars |-> IF f = 1 /\ c \in DOMAIN FontNew(<<>>).fs.glyph_infos THEN 1 ELSE 0]]
    /\ char_idx = None
    /\ cursor_pos = None
    /\ galley_cursor = None

NextGlyph ==
    \E t \in Threads :
        \/ \E c \in CallChars : Call(t, c)
        \/ ReadLock(t)
        \/ Lookup(t)
        \/ LockAtlas(t, FALSE)
        \/ Allocate(t, FALSE)
        \/ Draw(t, FALSE)
        \/ UnlockAtlas(t)
        \/ WriteLock(t, FALSE)
        \/ Insert(t, FALSE)
        \/ Return(t)
        \/ LockAtlas(t, TRUE)
        \/ Allocate(t, TRUE)
        \/ Draw(t, TRUE)
        \/ NewUnlockAtlas(t)
        \/ WriteLock(t, TRUE)
        \/ Insert(t, TRUE)
        \/ NewPreload(t)

SpecGlyph == InitGlyph /\ [][NextGlyph]_vars

\* The steps a thread takes by itself once it is inside Font::new or
\* glyph_info (entering glyph_info is the caller's choice)
Progress(t) ==
    \/ ReadLock(t)
    \/ Lookup(t)
    \/ LockAtlas(t, FALSE)
    \/ Allocate(t, FALSE)
    \/ Draw(t, FALSE)
    \/ UnlockAtlas(t)
    \/ WriteLock(t, FALSE)
    \/ Insert(t, FALSE)
    \/ Return(t)
    \/ LockAtlas(t, TRUE)
    \/ Allocate(t, TRUE)
    \/ Draw(t, TRUE)
    \/ NewUnlockAtlas(t)
    \/ WriteLock(t, TRUE)
    \/ Insert(t, TRUE)
    \/ NewPreload(t)

\* Fair scheduling: a thread that can take its next step, and stays able to,
\* takes it.  There are no suspension points; a thread blocks only on a lock.
SpecGlyphFair == SpecGlyph /\ \A t \in Threads : WF_vars(Progress(t))

\* ------------------------------------------------------------------------
\* Properties of the layout calls (SpecLayout)
\* ------------------------------------------------------------------------
NewlineCount(s) == Cardinality({k \in 1..Len(s) : s[k] = NEWLINE})

RECURSIVE Paragraphs(_)
\* The paragraph texts the while loop of layout_multiline lays out, in order
Paragraphs(s) ==
    IF s = <<>> THEN <<>>
    ELSE LET next_newline == find(s, NEWLINE)
         IN IF IsSome(next_newline)
            THEN <<Slice(s, 0, Unwrap(next_newline))>>
                 \o Paragraphs(Slice(s, Unwrap(next_newline) + 1, Len(s)))
            ELSE <<s>>

\* The Lines layout_paragraph_max_width returns for the paragraph p
ParagraphLines(p) ==
    layout_paragraph_max_width(Unwrap(replacement_glyph_info[self]), FontState,
                               p, max_width_in_points).lines

\* The x_offsets layout_single_line_fragment returns for p
FragmentOffsets(p) ==
    layout_single_line_fragment(Unwrap(replacement_glyph_info[self]), FontState, p).x_offsets

\* The number of characters the lines before line k hold, '\n' included
LineStart(lines, k) == TotalCharCount(SubSeq(lines, 1, k - 1))

NonDecreasing(xs) == \A k \in 1..(Len(xs) - 1) : xs[k] <= xs[k + 1]

\* C1: the character counts of the lines of a returned Galley, '\n' included,
\* add up to the number of characters of its text, for layout_multiline and
\* for layout_single_line, and no assertion of a layout call fails.
C1_CharCountsAddUp ==
    /\ call # "panic"
    /\ call \in {"layout_multiline", "layout_single_line"} =>
          /\ galley.text = text
          /\ TotalCharCount(galley.lines) = Len(chars(text))

\* C1 witness: a Galley of a text with a '\n' and a two-byte character, one of
\* whose paragraphs was wrapped.
C1_Witness ==
    /\ call = "layout_multiline"
    /\ NewlineCount(text) = 1
    /\ Len(galley.lines) = 3
    /\ Len(text) > Len(chars(text))

\* C2: a Galley from layout_multiline has a line, its last line does not end
\* with a newline, and a text ending in '\n' has an empty line after the line
\* that ends with that newline.
C2_LastLineHasNoNewline ==
    call = "layout_multiline" =>
        /\ Len(galley.lines) >= 1
        /\ ~Last(galley.lines).ends_with_newline
        /\ ends_with(text, NEWLINE) =>
              /\ Len(galley.lines) >= 2
              /\ Last(galley.lines).x_offsets = <<0>>
              /\ galley.lines[Len(galley.lines) - 1].ends_with_newline

\* C2 witness: the Galley of a text that ends in '\n' after a character.
C2_Witness ==
    /\ call = "layout_multiline"
    /\ Len(text) >= 2
    /\ ends_with(text, NEWLINE)
    /\ Len(galley.lines) >= 2

\* Every line has an offset more than characters, and at least one
OffsetsShape ==
    \A k \in 1..Len(galley.lines) :
        /\ galley.lines[k].x_offsets # <<>>
        /\ Len(galley.lines[k].x_offsets) = char_count_excluding_newline(galley.lines[k]) + 1
        /\ call = "layout_single_line" => Len(galley.lines[k].x_offsets) = Len(chars(text)) + 1

OffsetsNonDecreasing ==
    \A k \in 1..Len(galley.lines) : NonDecreasing(galley.lines[k].x_offsets)

\* The GlyphInfo glyph_info returns for c
Resolved(c) == glyph_info(Unwrap(replacement_glyph_info[self]), FontState, c).info

\* No character of the text steps backwards: its advance width plus the
\* kerning against the character before it is not negative
NoBackwardStep ==
    LET cs == chars(text) IN
    \A k \in 1..Len(cs) :
        Resolved(cs[k]).advance_width
        + (IF k > 1
           THEN pair_kerning(Resolved(cs[k - 1]).id, Resolved(cs[k]).id) \div pixels_per_point
           ELSE 0)
        >= 0

\* C3 as claimed: in every line of every Galley, x_offsets is non-empty, one
\* longer than the characters of the line, and non-decreasing, whatever advance
\* widths and kerning the typeface has.
C3_OffsetsNonDecreasingAlways ==
    call \in {"layout_multiline", "layout_single_line"} =>
        OffsetsShape /\ OffsetsNonDecreasing

\* C3 as amended: in every line of every Galley, x_offsets is non-empty and one
\* longer than the characters of the line; it is non-decreasing when no
\* character's advance width plus kerning against its predecessor is negative.
C3_OffsetsNonDecreasingWhenForward ==
    call \in {"layout_multiline", "layout_single_line"} =>
        /\ OffsetsShape
        /\ NoBackwardStep => OffsetsNonDecreasing

\* C3 witness: a wrapped text holding the kerned pair, the kerning negative but
\* not beyond the advance width.
C3_Witness ==
    /\ call = "layout_multiline"
    /\ font.kern < 0
    /\ NoBackwardStep
    /\ \E k \in 1..(Len(text) - 1) : text[k] = 97 /\ text[k + 1] = 97
    /\ Len(galley.lines) = 2

\* No paragraph of the text is wrapped for its width
NoWrap == \A k \in 1..Len(Paragraphs(text)) : Len(ParagraphLines(Paragraphs(text)[k])) = 1

\* C4: when no paragraph is wrapped, the Galley has one line more than the text
\* has '\n', every line but the last ends with a newline, and the last line of
\* an empty text or of a text ending in '\n' has the offsets [0].
C4_LinesWithoutWrap ==
    (call = "layout_multiline" /\ NoWrap) =>
        /\ Len(galley.lines) = NewlineCount(text) + 1
        /\ \A k \in 1..(Len(galley.lines) - 1) : galley.lines[k].ends_with_newline
        /\ ~Last(galley.lines).ends_with_newline
        /\ (text = <<>> \/ ends_with(text, NEWLINE)) => Last(galley.lines).x_offsets = <<0>>

\* C4 witness: the text "\n\n" laid out, three lines.
C4_Witness ==
    /\ call = "layout_multiline"
    /\ text = <<NEWLINE, NEWLINE>>
    /\ NoWrap
    /\ Len(galley.lines) = 3

\* C5: the lines that end with a newline are as many as the '\n' of the text,
\* and a line ends with a newline exactly when the character after its own
\* characters is a '\n': a line cut by the wrap never does.
C5_NewlineFlags ==
    call = "layout_multiline" =>
        LET cs == chars(text)
            lines == galley.lines
        IN /\ Cardinality({k \in 1..Len(lines) : lines[k].ends_with_newline}) = NewlineCount(text)
           /\ \A k \in 1..Len(lines) :
                 LET after == LineStart(lines, k) + char_count_excluding_newline(lines[k]) + 1
                 IN lines[k].ends_with_newline <=> (after <= Len(cs) /\ cs[after] = NEWLINE)

\* C5 witness: a paragraph cut in two lines and followed by '\n'.
C5_Witness ==
    /\ call = "layout_multiline"
    /\ NewlineCount(text) = 1
    /\ ends_with(text, NEWLINE)
    /\ Len(galley.lines) = 3
    /\ ~galley.lines[1].ends_with_newline
    /\ galley.lines[2].ends_with_newline

\* The lines of the paragraph p hold its characters in order: line k holds the
\* offsets of the characters from its start on, moved to start at its first
LinesPartition(p) ==
    LET lines == ParagraphLines(p)
        full == FragmentOffsets(p)
    IN /\ TotalCharCount(lines) = Len(chars(p))
       /\ \A k \in 1..Len(lines) :
             LET start == LineStart(lines, k)
             IN /\ start + Len(lines[k].x_offsets) <= Len(full)
                /\ \A j \in 1..Len(lines[k].x_offsets) :
                      lines[k].x_offsets[j] = full[start + j] - full[start + 1]

\* Every line of p but the last ends with a breaking whitespace
CutsAfterBreakingSpace(p) ==
    LET lines == ParagraphLines(p)
        cs == chars(p)
    IN \A k \in 1..(Len(lines) - 1) :
          /\ char_count_excluding_newline(lines[k]) >= 1
          /\ IsBreakingSpace(cs[LineStart(lines, k + 1)])

\* A turn of the loop that cuts leaves no wrap candidate but its own character
CandidateCleared(p) ==
    LET cs == chars(p)
        full == FragmentOffsets(p)
    IN \A n \in 1..Len(cs) :
          LET before == WrapLoop(full, cs, max_width_in_points, n - 1)
              after == WrapLoop(full, cs, max_width_in_points, n)
          IN Len(after.out_lines) > Len(before.out_lines) =>
                /\ after.last_space \in {None, Some(n - 1)}
                /\ after.line_start_idx = Unwrap(before.last_space) + 1

\* C6: in layout_paragraph_max_width every line but the paragraph's last ends
\* with a breaking whitespace that its x_offsets count, the next line starts
\* right after it, the wrap candidate is cleared by the cut, and the lines in
\* order hold exactly the characters of the paragraph.
C6_CutIncludesSpace ==
    call = "layout_multiline" =>
        \A k \in 1..Len(Paragraphs(text)) :
            LET p == Paragraphs(text)[k]
            IN /\ LinesPartition(p)
               /\ CutsAfterBreakingSpace(p)
               /\ CandidateCleared(p)

\* C6 witness: a paragraph cut twice, three lines.
C6_Witness ==
    /\ call = "layout_multiline"
    /\ NewlineCount(text) = 0
    /\ Len(galley.lines) = 3

\* C7: a paragraph without a breaking whitespace is one line at every width,
\* wider than the width or not; a text without one has a line per '\n' and one.
C7_NoBreakWithoutSpace ==
    call = "layout_multiline" =>
        /\ \A k \in 1..Len(Paragraphs(text)) :
              LET p == Paragraphs(text)[k]
              IN (\A j \in 1..Len(chars(p)) : ~IsBreakingSpace(chars(p)[j])) =>
                    Len(ParagraphLines(p)) = 1
        /\ (\A j \in 1..Len(text) : text[j] # 32) =>
              Len(galley.lines) = NewlineCount(text) + 1

\* C7 witness: a paragraph with a non-breaking space, wider than the width.
C7_Witness ==
    /\ call = "layout_multiline"
    /\ chars(text) = <<97, NON_BREAKING_SPACE, 97>>
    /\ Len(galley.lines) = 1
    /\ max_x(galley.lines[1]) > max_width_in_points

\* C8: the text " " is laid out by layout_multiline as one line that does not
\* end with a newline, at every width.
C8_SingleSpaceOneLine ==
    (text = <<32>> /\ call \notin {"none", "layout_single_line"}) =>
        /\ call = "layout_multiline"
        /\ Len(galley.lines) = 1
        /\ ~galley.lines[1].ends_with_newline
        /\ Len(galley.lines[1].x_offsets) = 2

\* C8 witness: " " laid out at a width smaller than the advance of the space.
C8_Witness ==
    /\ call = "layout_multiline"
    /\ text = <<32>>
    /\ Len(galley.lines) = 1
    /\ max_width_in_points < max_x(galley.lines[1])

\* The paragraphs of the text, and the empty paragraph
ParagraphsAndEmpty == {Paragraphs(text)[k] : k \in 1..Len(Paragraphs(text))} \cup {<<>>}

\* In every turn of the loop over p the wrap candidate, if there is one, is
\* not before the start of the current line
CandidateInLine(p) ==
    \A n \in 0..Len(chars(p)) :
        LET st == WrapLoop(FragmentOffsets(p), chars(p), max_width_in_points, n)
        IN IsSome(st.last_space) => Unwrap(st.last_space) >= st.line_start_idx

\* C18: layout_paragraph_max_width returns at least one line for every
\* paragraph and width, so that the assertion of layout_multiline holds; every
\* line starts at the offset 0; every line of a non-empty paragraph holds a
\* character; the wrap candidate is never before the start of the current line.
C18_ParagraphHasLines ==
    /\ call # "panic"
    /\ call = "layout_multiline" =>
          \A p \in ParagraphsAndEmpty :
              LET lines == ParagraphLines(p)
              IN /\ Len(lines) >= 1
                 /\ \A k \in 1..Len(lines) : At(lines[k].x_offsets, 0) = 0
                 /\ p # <<>> =>
                       /\ \A k \in 1..Len(lines) :
                             char_count_excluding_newline(lines[k]) >= 1
                       /\ CandidateInLine(p)

\* C18 witness: two spaces and a letter at the width 0, cut after each space:
\* the second space is the candidate at the very start of its line.
C18_Witness ==
    /\ call = "layout_multiline"
    /\ text = <<32, 32, 97>>
    /\ max_width_in_points = 0
    /\ Len(galley.lines) = 3
    /\ \A k \in 1..3 : char_count_excluding_newline(galley.lines[k]) = 1

\* A turn of the loop over p cuts only when the running width since the start
\* of the current line is more than the width
CutsOnlyBeyondWidth(p) ==
    LET cs == chars(p)
        full == FragmentOffsets(p)
    IN \A n \in 1..Len(cs) :
          LET before == WrapLoop(full, cs, max_width_in_points, n - 1)
              after == WrapLoop(full, cs, max_width_in_points, n)
          IN Len(after.out_lines) > Len(before.out_lines) =>
                At(full, n) - before.line_start_x > max_width_in_points

\* The paragraph p is laid out as the one line of its fragment offsets
OneLineAsFragment(p) ==
    /\ Len(ParagraphLines(p)) = 1
    /\ ParagraphLines(p)[1].x_offsets = FragmentOffsets(p)

\* C19 as claimed: a cut happens only when the running width since the start
\* of the line exceeds the width, and a paragraph whose full single-line width
\* (its last offset) is at most the width is laid out as exactly one line whose
\* x_offsets are the fragment offsets.
C19_OneLineWhenWidthFits ==
    call = "layout_multiline" =>
        \A k \in 1..Len(Paragraphs(text)) :
            LET p == Paragraphs(text)[k]
            IN /\ CutsOnlyBeyondWidth(p)
               /\ Last(FragmentOffsets(p)) <= max_width_in_points => OneLineAsFragment(p)

\* C19 as amended: a cut happens only when the running width since the start
\* of the line exceeds the width, and a paragraph none of whose single-line
\* fragment offsets is more than the width is laid out as exactly one line
\* whose x_offsets are the fragment offsets.
C19_OneLineWhenOffsetsFit ==
    call = "layout_multiline" =>
        \A k \in 1..Len(Paragraphs(text)) :
            LET p == Paragraphs(text)[k]
            IN /\ CutsOnlyBeyondWidth(p)
               /\ (\A j \in 1..Len(FragmentOffsets(p)) :
                      FragmentOffsets(p)[j] <= max_width_in_points) => OneLineAsFragment(p)

\* C19 witness: two spaces exactly as wide as the width, the first a wrap
\* candidate when the second is reached, laid out as one line.
C19_Witness ==
    /\ call = "layout_multiline"
    /\ text = <<32, 32>>
    /\ max_width_in_points > 0
    /\ max_x(galley.lines[1]) = max_width_in_points
    /\ Len(galley.lines) = 1

\* The largest max_x of the lines
LargestMaxX(lines) ==
    CHOOSE m \in {max_x(lines[k]) : k \in 1..Len(lines)} :
        \A k \in 1..Len(lines) : max_x(lines[k]) <= m

\* C20: in every Galley from layout_multiline the lines are stacked from the
\* top without overlap, y_max of a line at most y_min of the next; each line is
\* as high as the font; size is the largest max_x of the lines and y_max of the
\* last line; for every scale and pixels_per_point.
C20_LinesStackedWithoutOverlap ==
    call = "layout_multiline" =>
        /\ \A k \in 1..(Len(galley.lines) - 1) :
              galley.lines[k].y_max <= galley.lines[k + 1].y_min
        /\ \A k \in 1..Len(galley.lines) :
              galley.lines[k].y_max - galley.lines[k].y_min = height
        /\ galley.size = <<LargestMaxX(galley.lines), Last(galley.lines).y_max>>

\* ------------------------------------------------------------------------
\* Properties of glyph_info under threads (SpecGlyph)
\* ------------------------------------------------------------------------
\* C9: all the calls of glyph_info for one character on one Font return the
\* same GlyphInfo, whatever threads make them.
C9_SameGlyphInfoEveryCall ==
    \A r1 \in returns : \A r2 \in returns :
        (r1[1] = r2[1] /\ r1[2] = r2[2]) => r1[3] = r2[3]

\* C10: for a character without a glyph glyph_info returns the Font's
\* replacement_glyph_info and stores it in the cache under that character: a
\* call that begins once the entry is there takes the hit and never goes on to
\* the allocator.
C10_ReplacementCached ==
    /\ \A r \in returns :
          /\ r[2] \in DOMAIN glyph_infos[r[1]]
          /\ GlyphId(r[2]) = 0 => r[3] = Unwrap(replacement_glyph_info[r[1]])
    /\ \A f \in Fonts : \A c \in DOMAIN glyph_infos[f] :
          GlyphId(c) = 0 => glyph_infos[f][c] = Unwrap(replacement_glyph_info[f])
    /\ \A t \in Threads :
          threads[t].cached_at_call => threads[t].pc \in {"read_lock", "lookup", "return"}

\* C10 witness: a call for '\n' that began with the entry in the cache is about
\* to return the replacement, after one allocator call for '\n' on that Font.
C10_Witness ==
    \E t \in Threads :
        /\ threads[t].pc = "return"
        /\ threads[t].c = NEWLINE
        /\ threads[t].cached_at_call
        /\ threads[t].info = replacement_glyph_info[FontOf(t)]
        /\ allocs[FontOf(t)][NEWLINE] = 1

\* A thread is inside allocate_glyph, or at the end of the statement that
\* called it, the atlas guard not yet dropped
InAllocateGlyph(t) ==
    threads[t].pc \in {"allocate", "draw", "unlock_atlas",
                       "new_allocate", "new_draw", "new_unlock_atlas"}

\* A thread has allocated the region of its glyph and not yet drawn into it
Drawing(t) == threads[t].pc \in {"draw", "new_draw"}

\* C11: no two threads, of one Font or of two Fonts on the same atlas, are
\* inside allocate_glyph at once, and a thread inside holds the atlas lock;
\* between a glyph's allocation and its drawing nothing else is allocated, so
\* the region being drawn is the last one and blank, and every other region
\* holds its whole glyph.
C11_AtlasMutualExclusion ==
    /\ \A t1 \in Threads : \A t2 \in Threads :
          (InAllocateGlyph(t1) /\ InAllocateGlyph(t2)) => t1 = t2
    /\ \A t \in Threads : InAllocateGlyph(t) => atlas_lock = Some(t)
    /\ \A t \in Threads :
          Drawing(t) => /\ threads[t].pos = Len(atlas) - 1
                        /\ At(atlas, threads[t].pos) = 0
    /\ \A p \in 1..Len(atlas) :
          atlas[p] = 0 => \E t \in Threads : Drawing(t) /\ threads[t].pos = p - 1

\* C11 witness: a thread of one Font is between the allocation and the drawing
\* of a glyph while a thread of the other Font waits for the atlas lock.
C11_Witness ==
    \E t \in Threads : \E u \in Threads :
        /\ FontOf(t) # FontOf(u)
        /\ Drawing(t)
        /\ threads[u].pc \in {"lock_atlas", "new_lock_atlas"}

\* C12: the glyph cache of a Font only grows and an entry never changes: in
\* every step, a character that has an entry keeps it, with the same GlyphInfo.
C12_CacheEntriesImmutable ==
    [][\A f \in Fonts : \A c \in DOMAIN glyph_infos[f] :
          /\ c \in DOMAIN glyph_infos'[f]
          /\ glyph_infos'[f][c] = glyph_infos[f][c]]_vars

\* C17: for each Font and each character, allocate_glyph is called at most
\* once over the Font's lifetime, by Font::new, its preload and all the
\* glyph_info calls of all threads together ('?' included).
C17_AllocatedAtMostOnce ==
    \A f \in Fonts : \A c \in AllChars : allocs[f][c] <= 1

\* The locks a thread holds: read or write guards of glyph caches, the atlas guard
LocksHeld(t) ==
    {<<"read", f>> : f \in {g \in Fonts : t \in glyph_infos_lock[g].readers}}
    \cup {<<"write", f>> : f \in {g \in Fonts : glyph_infos_lock[g].writer = Some(t)}}
    \cup (IF atlas_lock = Some(t) THEN {<<"atlas", 0>>} ELSE {})

\* A thread is about to take a lock, and blocks while it is not free
Waiting(t) ==
    threads[t].pc \in {"read_lock", "lock_atlas", "write_lock",
                       "new_lock_atlas", "new_write_lock"}

\* No thread holds two locks, or a lock while it waits for one: the read guard
\* is held for the lookup only, the write guard for the insert only
NoTwoLocks ==
    \A t \in Threads :
        /\ Cardinality(LocksHeld(t)) <= 1
        /\ Waiting(t) => LocksHeld(t) = {}
        /\ threads[t].pc \in {"idle", "return", "new_preload"} => LocksHeld(t) = {}
        /\ \A f \in Fonts :
              /\ t \in glyph_infos_lock[f].readers => threads[t].pc = "lookup"
              /\ glyph_infos_lock[f].writer = Some(t) =>
                    threads[t].pc \in {"insert", "new_insert"}

\* While a call is under way, some thread inside a call can take a step
NoDeadlock ==
    (\E t \in Threads : threads[t].pc # "idle") =>
        \E t \in Threads : ENABLED Progress(t)

\* C16: in glyph_info and Font::new a thread never holds two locks at once, nor
\* one lock while waiting for another; no reachable state is a deadlock; and
\* under fair scheduling every call of glyph_info and Font::new returns.
C16_OneLockAtATimeAndReturns ==
    /\ [](NoTwoLocks /\ NoDeadlock)
    /\ \A t \in Threads : (threads[t].pc # "idle") ~> (threads[t].pc = "idle")

\* C16 witness: a thread waits for the write lock of its Font's cache, which a
\* reader of the same Font holds, while a third thread holds the atlas.
C16_Witness ==
    \E t \in Threads : \E u \in Threads : \E v \in Threads :
        /\ threads[t].pc = "write_lock"
        /\ u # t /\ FontOf(u) = FontOf(t)
        /\ u \in glyph_infos_lock[FontOf(t)].readers
        /\ v \notin {t, u} /\ atlas_lock = Some(v)

\* ------------------------------------------------------------------------
\* Properties of char_start_pos and char_at (SpecCursor)
\* ------------------------------------------------------------------------
StrictlyIncreasing(xs) == \A k \in 1..(Len(xs) - 1) : xs[k] < xs[k + 1]

\* C13: for the Galley of layout_single_line and every index i,
\* char_at(char_start_pos(i)) is a cursor with char_idx between 0 and the
\* number of characters, on line 0, its column equal to char_idx; when the
\* line's x_offsets increase strictly and i is at most the number of
\* characters, char_idx is i.  Neither call panics.
C13_SingleLineRoundTrip ==
    /\ call # "panic"
    /\ (call = "layout_single_line" /\ IsSome(char_idx) /\ IsSome(galley_cursor)) =>
          LET i == Unwrap(char_idx)
              n == Len(chars(text))
              c == Unwrap(galley_cursor)
          IN /\ c.char_idx \in 0..n
             /\ c.line = 0
             /\ c.column = c.char_idx
             /\ (StrictlyIncreasing(galley.lines[1].x_offsets) /\ i \in 0..n) =>
                   c.char_idx = i

\* C13 witness: the round trip of the index 1 on a single line of three
\* characters with strictly increasing offsets.
C13_Witness ==
    /\ call = "layout_single_line"
    /\ Len(chars(text)) = 3
    /\ StrictlyIncreasing(galley.lines[1].x_offsets)
    /\ char_idx = Some(1)
    /\ IsSome(galley_cursor)
    /\ Unwrap(galley_cursor).char_idx = 1

\* The line k owns the index i: i counts a character of the line or its '\n'
Owns(lines, k, i) ==
    /\ LineStart(lines, k) <= i
    /\ i < LineStart(lines, k) + char_count_including_newline(lines[k])

YDist(line, y) == Min2(Abs(line.y_min - y), Abs(line.y_max - y))

\* C15: char_at(pos) is the cursor of the first line, from the top, of least
\* distance min(|y_min - pos.y|, |y_max - pos.y|); its column is the smallest i
\* with pos.x strictly left of the centre of x_offsets[i] and x_offsets[i+1],
\* or char_count_excluding_newline() without one; its char_idx is the
\* characters of the lines before, '\n' included, plus the column, and never
\* more than the characters of the text.
C15_CharAt ==
    (HasGalley /\ IsSome(galley_cursor) /\ galley.lines # <<>>) =>
        LET p == Unwrap(cursor_pos)
            c == Unwrap(galley_cursor)
            lines == galley.lines
            k == c.line + 1
            xs == lines[k].x_offsets
            left_of == {i \in 0..(Len(xs) - 2) : 2 * p[1] < At(xs, i) + At(xs, i + 1)}
        IN /\ k \in 1..Len(lines)
           /\ \A j \in 1..Len(lines) : YDist(lines[k], p[2]) <= YDist(lines[j], p[2])
           /\ \A j \in 1..(k - 1) : YDist(lines[k], p[2]) < YDist(lines[j], p[2])
           /\ IF left_of = {} THEN c.column = char_count_excluding_newline(lines[k])
              ELSE c.column \in left_of /\ \A i \in left_of : c.column <= i
           /\ c.char_idx = LineStart(lines, k) + c.column
           /\ c.char_idx <= Len(chars(galley.text))

\* C15 witness: a position as far from the first line as from the second, on
\* the centre of a character of the first: the cursor is on the first line,
\* after that character.
C15_Witness ==
    /\ call = "layout_multiline"
    /\ char_idx = None /\ IsSome(galley_cursor)
    /\ Len(galley.lines) >= 2
    /\ YDist(galley.lines[1], Unwrap(cursor_pos)[2]) = YDist(galley.lines[2], Unwrap(cursor_pos)[2])
    /\ Unwrap(galley_cursor).line = 0
    /\ Unwrap(galley_cursor).column >= 1
    /\ LET xs == galley.lines[1].x_offsets
           col == Unwrap(galley_cursor).column
       IN 2 * Unwrap(cursor_pos)[1] = At(xs, col - 1) + At(xs, col)

\* C21: for every Galley from layout_multiline whose lines have strictly
\* increasing x_offsets and every index i from 0 to the number of characters,
\* char_at(char_start_pos(i)) is a cursor with char_idx i on the line that owns
\* i (the last line for the index of the end of the text), also when i is the
\* first character of a line made by a wrap.
C21_MultilineRoundTrip ==
    (/\ call = "layout_multiline"
     /\ \A k \in 1..Len(galley.lines) : StrictlyIncreasing(galley.lines[k].x_offsets)
     /\ IsSome(char_idx) /\ IsSome(galley_cursor)
     /\ Unwrap(char_idx) <= Len(chars(text))) =>
        LET i == Unwrap(char_idx)
            c == Unwrap(galley_cursor)
            lines == galley.lines
        IN /\ c.char_idx = i
           /\ c.line + 1 \in 1..Len(lines)
           /\ IF i = Len(chars(text)) THEN c.line + 1 = Len(lines)
              ELSE Owns(lines, c.line + 1, i)

====
